---- MODULE Spec2Model ----
(***************************************************************************)
(* Codpoe/json_parser: the tokenizer (src/src/tokenizer.rs), the recursive *)
(* descent parser (src/src/parser.rs) and Json::parse (src/src/lib.rs).    *)
(*                                                                         *)
(* A text is a sequence of characters, a character is its Unicode code     *)
(* point.  Rust indexes from 0 and TLA+ sequences from 1: index, offset    *)
(* and parsed_index keep the Rust values and At/Has do the shift.          *)
(***************************************************************************)
EXTENDS Integers, Sequences, FiniteSets, TLC

----------------------------------------------------------------------------
(* The characters the code names. *)
TAB == 9
LF == 10
CR == 13
SPACE == 32
QUOTE == 34
COMMA == 44
MINUS == 45
DOT == 46
SLASH == 47
DIGIT_0 == 48
DIGIT_1 == 49
DIGIT_9 == 57
COLON == 58
UPPER_A == 65
UPPER_E == 69
UPPER_F == 70
LBRACKET == 91
BACKSLASH == 92
RBRACKET == 93
LOWER_A == 97
LOWER_B == 98
LOWER_E == 101
LOWER_F == 102
LOWER_N == 110
LOWER_R == 114
LOWER_T == 116
LOWER_U == 117
LBRACE == 123
RBRACE == 125

(* "true", "false", "null" *)
TRUE_LIT == <<116, 114, 117, 101>>
FALSE_LIT == <<102, 97, 108, 115, 101>>
NULL_LIT == <<110, 117, 108, 108>>
TRUE_LEN == Len(TRUE_LIT)
FALSE_LEN == Len(FALSE_LIT)
NULL_LEN == Len(NULL_LIT)

----------------------------------------------------------------------------
(* Vec<char>::get(i) *)
Has(cs, i) == i >= 0 /\ i < Len(cs)
At(cs, i) == cs[i + 1]

Min(a, b) == IF a <= b THEN a ELSE b

Loc(l, c, o) == [line |-> l, column |-> c, offset |-> o]
Span(s, e) == [start |-> s, end |-> e]

(* Tokenizer::line_span with start_loc given (None is the current position,
   which the caller passes). *)
(* line_span that takes end_index for the length of the span. *)
line_span_len(start_loc, end_index) ==
  Span(start_loc,
       Loc(start_loc.line, start_loc.column + end_index,
           start_loc.offset + end_index))

line_span(start_loc, end_index) ==
  LET span_len == end_index - start_loc.offset
  IN  Span(start_loc,
           Loc(start_loc.line, start_loc.column + span_len,
               start_loc.offset + span_len))

(* Tokenizer::substring: chars.iter().skip(start).take(end - start) *)
substring(cs, start, end) ==
  LET n == Min(end, Len(cs)) - start
  IN  [i \in 1..(IF n > 0 THEN n ELSE 0) |-> cs[start + i]]

is_hex(c) ==
  \/ c >= DIGIT_0 /\ c <= DIGIT_9
  \/ c >= LOWER_A /\ c <= LOWER_F
  \/ c >= UPPER_A /\ c <= UPPER_F

IsDigit(c) == c >= DIGIT_0 /\ c <= DIGIT_9
IsDigit19(c) == c >= DIGIT_1 /\ c <= DIGIT_9

----------------------------------------------------------------------------
(* Tokens.  value: the raw lexeme of a String, the double of a Number, the
   bool of a Boolean. *)
Token(type, value, span) == [type |-> type, value |-> value, span |-> span]

(* What a scanner alternative hands back: Some(token), None, or the thread
   panicking inside it; and where it left index and column. *)
ScanSome(token, idx, col) ==
  [kind |-> "Some", token |-> token, index |-> idx, column |-> col]
ScanNone(idx, col) ==
  [kind |-> "None", token |-> <<>>, index |-> idx, column |-> col]
ScanPanic(idx, col) ==
  [kind |-> "panic", token |-> <<>>, index |-> idx, column |-> col]

----------------------------------------------------------------------------
(* str::parse::<f64>() on a lexeme over sign, digits, '.', 'e', 'E': the
   decimal it denotes as mant * 10^exp (binary rounding is not modelled), or
   the ParseFloatError that a lexeme outside
   [sign] digits ['.' digits] [('e'|'E') [sign] digits]  gets. *)
RECURSIVE f64_scan(_, _, _, _)
f64_scan(lex, i, st, acc) ==
  IF i > Len(lex)
  THEN [ok |-> st \in {"int", "frac", "expd"} /\ acc.nd > 0,
        neg |-> acc.neg, mant |-> acc.mant,
        exp |-> (IF acc.eneg THEN 0 - acc.e ELSE acc.e) - acc.fd]
  ELSE LET c == lex[i] IN
    CASE st = "start" /\ c \in {MINUS, 43} ->
           f64_scan(lex, i + 1, "int", [acc EXCEPT !.neg = (c = MINUS)])
      [] st \in {"start", "int"} /\ IsDigit(c) ->
           f64_scan(lex, i + 1, "int",
                    [acc EXCEPT !.mant = acc.mant * 10 + (c - DIGIT_0),
                                !.nd = acc.nd + 1])
      [] st \in {"start", "int"} /\ c = DOT -> f64_scan(lex, i + 1, "frac", acc)
      [] st = "frac" /\ IsDigit(c) ->
           f64_scan(lex, i + 1, "frac",
                    [acc EXCEPT !.mant = acc.mant * 10 + (c - DIGIT_0),
                                !.nd = acc.nd + 1, !.fd = acc.fd + 1])
      [] st \in {"int", "frac"} /\ c \in {LOWER_E, UPPER_E} /\ acc.nd > 0 ->
           f64_scan(lex, i + 1, "exp", acc)
      [] st = "exp" /\ c \in {MINUS, 43} ->
           f64_scan(lex, i + 1, "exps", [acc EXCEPT !.eneg = (c = MINUS)])
      [] st \in {"exp", "exps", "expd"} /\ IsDigit(c) ->
           f64_scan(lex, i + 1, "expd",
                    [acc EXCEPT !.e = acc.e * 10 + (c - DIGIT_0)])
      [] OTHER -> [ok |-> FALSE, neg |-> FALSE, mant |-> 0, exp |-> 0]

RECURSIVE f64_norm(_)
f64_norm(v) ==
  IF v.mant = 0 THEN [v EXCEPT !.exp = 0, !.neg = FALSE]
  ELSE IF v.mant % 10 = 0
       THEN f64_norm([v EXCEPT !.mant = v.mant \div 10, !.exp = v.exp + 1])
       ELSE v

f64_parse(lex) ==
  LET r == f64_scan(lex, 1, "start",
                    [neg |-> FALSE, mant |-> 0, nd |-> 0, fd |-> 0,
                     eneg |-> FALSE, e |-> 0])
  IN  IF r.ok THEN f64_norm(r) ELSE r

----------------------------------------------------------------------------
(* whitespace that counts a line break and leaves index where it was. *)
whitespace_at_stuck(cs, idx, ln, col) ==
  LET c == At(cs, idx) IN
  CASE c \in {SPACE, TAB} ->
         [some |-> TRUE, index |-> idx + 1, line |-> ln, column |-> col + 1]
    [] c \in {CR, LF} ->
         [some |-> TRUE, index |-> idx, line |-> ln + 1, column |-> 1]
    [] OTHER ->
         [some |-> FALSE, index |-> idx, line |-> ln, column |-> col]

(* Tokenizer::whitespace at chars[idx] (index < len is the caller's loop
   condition).  The CRLF test reads c, the character already matched as CR. *)
whitespace_at(cs, idx, ln, col) ==
  LET c == At(cs, idx) IN
  CASE c \in {SPACE, TAB} ->
         [some |-> TRUE, index |-> idx + 1, line |-> ln, column |-> col + 1]
    [] c = CR ->
         [some |-> TRUE,
          index |-> (IF c = LF THEN idx + 2 ELSE idx + 1),
          line |-> ln + 1, column |-> 1]
    [] c = LF ->
         [some |-> TRUE, index |-> idx + 1, line |-> ln + 1, column |-> 1]
    [] OTHER ->
         [some |-> FALSE, index |-> idx, line |-> ln, column |-> col]

PunctuationType(c) ==
  CASE c = LBRACE -> "LeftBrace"
    [] c = RBRACE -> "RightBrace"
    [] c = LBRACKET -> "LeftBracket"
    [] c = RBRACKET -> "RightBracket"
    [] c = COLON -> "Colon"
    [] c = COMMA -> "Comma"
    [] OTHER -> "none"

(* Tokenizer::punctuation *)
punctuation_at(cs, idx, ln, col) ==
  LET c == At(cs, idx) IN
  IF PunctuationType(c) # "none"
  THEN ScanSome(Token(PunctuationType(c), <<>>,
                      line_span(Loc(ln, col, idx), idx + 1)),
                idx + 1, col + 1)
  ELSE ScanNone(idx, col)

(* The for i in 0..4 loop of the 'u' escape: it tests chars[index + i + 1]
   and advances index in the same iteration. *)
RECURSIVE hex_loop(_, _, _, _)
hex_loop(cs, idx, col, i) ==
  IF i = 4 THEN [ok |-> TRUE, index |-> idx, column |-> col]
  ELSE IF Has(cs, idx + i + 1) /\ is_hex(At(cs, idx + i + 1))
       THEN hex_loop(cs, idx + 1, col + 1, i + 1)
       ELSE [ok |-> FALSE, index |-> idx, column |-> col]

(* The while let loop of Tokenizer::string. *)
RECURSIVE string_loop(_, _, _, _, _)
string_loop(cs, start_loc, state, idx, col) ==
  IF ~Has(cs, idx) THEN ScanNone(idx, col)
  ELSE LET c == At(cs, idx) IN
    CASE state = "Start" ->
           IF c = QUOTE
           THEN string_loop(cs, start_loc, "QuoteOrChar", idx + 1, col + 1)
           ELSE ScanNone(idx, col)
      [] state = "QuoteOrChar" ->
           IF c = QUOTE
           THEN ScanSome(Token("String",
                               substring(cs, start_loc.offset, idx + 1),
                               line_span(start_loc, idx + 1)),
                         idx + 1, col + 1)
           ELSE IF c = BACKSLASH
                THEN string_loop(cs, start_loc, "Escape", idx + 1, col + 1)
                ELSE string_loop(cs, start_loc, "QuoteOrChar", idx + 1, col + 1)
      [] state = "Escape" ->
           IF c = LOWER_U
           THEN LET h == hex_loop(cs, idx, col, 0) IN
                IF h.ok
                THEN string_loop(cs, start_loc, "QuoteOrChar", h.index, h.column)
                ELSE ScanNone(h.index, h.column)
           ELSE IF c \in {QUOTE, BACKSLASH, SLASH, LOWER_B, LOWER_F, LOWER_N,
                          LOWER_R, LOWER_T}
                THEN string_loop(cs, start_loc, "QuoteOrChar", idx + 1, col + 1)
                ELSE ScanNone(idx, col)

(* Tokenizer::string *)
string_at(cs, idx, ln, col) ==
  string_loop(cs, Loc(ln, col, idx), "Start", idx, col)

(* One iteration of the while let loop of Tokenizer::number on character c
   in `state`: the next state ("break" leaves the loop before the increment)
   and whether parsed_index becomes index + 1. *)
number_step(state, c) ==
  CASE state = "Start" /\ c = MINUS -> [state |-> "Minus", parsed |-> FALSE]
    [] state \in {"Start", "Minus"} /\ c = DIGIT_0 ->
         [state |-> "Zero", parsed |-> TRUE]
    [] state \in {"Start", "Minus"} /\ IsDigit19(c) ->
         [state |-> "Digit", parsed |-> TRUE]
    [] state \in {"Zero", "Digit"} /\ c = DOT ->
         [state |-> "Point", parsed |-> FALSE]
    [] state \in {"Zero", "Digit", "Fraction"} /\ c \in {LOWER_E, UPPER_E} ->
         [state |-> "Exp", parsed |-> FALSE]
    [] state = "Digit" /\ IsDigit(c) -> [state |-> "Digit", parsed |-> TRUE]
    [] state \in {"Point", "Fraction"} /\ IsDigit(c) ->
         [state |-> "Fraction", parsed |-> TRUE]
    [] state = "Exp" /\ c = MINUS ->
         [state |-> "ExpSignOrDigit", parsed |-> FALSE]
    [] state = "Exp" /\ IsDigit(c) ->
         [state |-> "ExpSignOrDigit", parsed |-> TRUE]
    [] state = "ExpSignOrDigit" /\ IsDigit(c) ->
         [state |-> "Fraction", parsed |-> TRUE]
    [] OTHER -> [state |-> "break", parsed |-> FALSE]

(* The loop of Tokenizer::number: where it leaves index, column and
   parsed_index. *)
RECURSIVE number_loop(_, _, _, _, _)
number_loop(cs, state, idx, col, parsed_index) ==
  IF ~Has(cs, idx)
  THEN [index |-> idx, column |-> col, parsed_index |-> parsed_index]
  ELSE LET s == number_step(state, At(cs, idx)) IN
       IF s.state = "break"
       THEN [index |-> idx, column |-> col, parsed_index |-> parsed_index]
       ELSE number_loop(cs, s.state, idx + 1, col + 1,
                        IF s.parsed THEN idx + 1 ELSE parsed_index)

(* Tokenizer::number: the lexeme up to parsed_index is parsed as f64 and
   unwrapped. *)
number_at(cs, idx, ln, col) ==
  LET start_loc == Loc(ln, col, idx)
      l == number_loop(cs, "Start", idx, col, 0)
  IN  IF l.parsed_index > 0
      THEN LET value == f64_parse(substring(cs, start_loc.offset, l.parsed_index))
           IN  IF value.ok
               THEN ScanSome(Token("Number", value,
                                   line_span(start_loc, l.parsed_index)),
                             l.index, l.column)
               ELSE ScanPanic(l.index, l.column)
      ELSE ScanNone(l.index, l.column)

(* Tokenizer::boolean *)
boolean_at(cs, idx, ln, col) ==
  IF substring(cs, idx, idx + TRUE_LEN) = TRUE_LIT
  THEN ScanSome(Token("Boolean", TRUE,
                      line_span(Loc(ln, col, idx), idx + TRUE_LEN)),
                idx + TRUE_LEN, col + TRUE_LEN)
  ELSE IF substring(cs, idx, idx + FALSE_LEN) = FALSE_LIT
       THEN ScanSome(Token("Boolean", FALSE,
                           line_span(Loc(ln, col, idx), idx + FALSE_LEN)),
                     idx + FALSE_LEN, col + FALSE_LEN)
       ELSE ScanNone(idx, col)

(* Tokenizer::null *)
null_at(cs, idx, ln, col) ==
  IF substring(cs, idx, idx + NULL_LEN) = NULL_LIT
  THEN ScanSome(Token("Null", <<>>,
                      line_span(Loc(ln, col, idx), idx + NULL_LEN)),
                idx + NULL_LEN, col + NULL_LEN)
  ELSE ScanNone(idx, col)

----------------------------------------------------------------------------
(* The parser.  Option<T> is a sequence of length 0 (None) or 1 (Some). *)
None == <<>>
Some(x) == <<x>>

(* ESCAPES: each entry is a raw string literal r"\b", r"\f", ...: the two
   characters backslash and letter. *)
ESCAPES ==
  [c \in {LOWER_B, LOWER_F, LOWER_N, LOWER_R, LOWER_T} |-> <<BACKSLASH, c>>]

HexDigit(c) ==
  IF c >= DIGIT_0 /\ c <= DIGIT_9 THEN c - DIGIT_0
  ELSE IF c >= LOWER_A /\ c <= LOWER_F THEN c - LOWER_A + 10
  ELSE c - UPPER_A + 10

(* u16::from_str_radix(s, 16) on the four characters s: None on a character
   that is no hex digit.  (A leading '+' is accepted by the library routine;
   the tokenizer never hands one over, the first character after 'u' is
   tested by is_hex.) *)
from_str_radix16(s) ==
  IF \A i \in 1..Len(s) : is_hex(s[i])
  THEN Some(HexDigit(s[1]) * 4096 + HexDigit(s[2]) * 256
            + HexDigit(s[3]) * 16 + HexDigit(s[4]))
  ELSE None

(* char::from_u32: None for a surrogate code point. *)
from_u32(n) == IF n >= 55296 /\ n <= 57343 THEN None ELSE Some(n)

StrOk(v) == [kind |-> "Ok", value |-> v]
StrErr(c) == [kind |-> "Err", value |-> <<c>>]
StrPanic == [kind |-> "panic", value |-> <<>>]

(* The while loop of parse_string over the interior chars, ret so far. *)
RECURSIVE parse_string_loop(_, _, _)
parse_string_loop(cs, idx, ret) ==
  IF ~(idx < Len(cs)) THEN StrOk(ret)
  ELSE LET c == At(cs, idx) IN
    IF c # BACKSLASH THEN parse_string_loop(cs, idx + 1, Append(ret, c))
    ELSE IF ~Has(cs, idx + 1) THEN StrPanic
    ELSE LET next_c == At(cs, idx + 1)
             i2 == idx + 2
         IN
      CASE next_c = LOWER_U ->
             IF i2 + 4 > Len(cs) THEN StrPanic
             ELSE LET unicode == from_str_radix16(substring(cs, i2, i2 + 4)) IN
                  IF unicode = None THEN StrPanic
                  ELSE IF from_u32(unicode[1]) = None THEN StrPanic
                  ELSE parse_string_loop(cs, i2 + 4,
                                         Append(ret, from_u32(unicode[1])[1]))
        [] next_c \in {QUOTE, BACKSLASH, SLASH} ->
             parse_string_loop(cs, i2, Append(ret, next_c))
        [] next_c \in {LOWER_B, LOWER_F, LOWER_N, LOWER_R, LOWER_T} ->
             parse_string_loop(cs, i2, ret \o ESCAPES[next_c])
        [] OTHER -> StrErr(next_c)

(* parse_string: strips the first and the last character, then decodes. *)
parse_string(quoted_input) ==
  parse_string_loop(substring(quoted_input, 1, Len(quoted_input) - 1), 0, <<>>)

(* Result<Ast, String> of a parser method, with self.index as it leaves it;
   "panic" is the thread panicking inside it. *)
POk(ast, idx) == [kind |-> "Ok", ast |-> ast, index |-> idx, err |-> <<>>]
PErr(e, idx) == [kind |-> "Err", ast |-> <<>>, index |-> idx, err |-> e]
PPanic(idx) == [kind |-> "panic", ast |-> <<>>, index |-> idx, err |-> <<>>]

error_eof(idx) ==
  PErr([msg |-> "Unexpected end of input", token |-> None], idx)
error_token(token, idx) ==
  PErr([msg |-> "Unexpected token", token |-> Some(token)], idx)
error_escape(c, idx) ==
  PErr([msg |-> "Unexpected escape character", token |-> Some(c)], idx)

(* create_span losing the start it is given. *)
create_span_end_only(start_span, end_span) == end_span

(* create_span that starts where the start span ends. *)
create_span_from_end(start_span, end_span) ==
  IF start_span # None
  THEN Span(start_span[1].end, end_span.end)
  ELSE end_span

(* create_span that forgets the end span. *)
create_span_start_only(start_span, end_span) ==
  IF start_span # None
  THEN start_span[1]
  ELSE end_span

create_span(start_span, end_span) ==
  IF start_span # None
  THEN Span(start_span[1].start, end_span.end)
  ELSE end_span

Leaf(type, value, span) == [type |-> type, value |-> value, span |-> span]
PropertyAst(key, value, span) ==
  [type |-> "Property", key |-> key, value |-> value, span |-> span]

(* Parser::parse_literal *)
parse_literal(toks, idx) ==
  IF ~Has(toks, idx) THEN PPanic(idx)
  ELSE LET token == At(toks, idx) IN
    CASE token.type = "String" ->
           LET ret == parse_string(token.value) IN
           IF ret.kind = "panic" THEN PPanic(idx)
           ELSE IF ret.kind = "Err" THEN error_escape(ret.value[1], idx)
           ELSE POk(Leaf("String", ret.value, create_span(None, token.span)),
                    idx + 1)
      [] token.type = "Number" ->
           POk(Leaf("Number", token.value, create_span(None, token.span)),
               idx + 1)
      [] token.type = "Boolean" ->
           POk(Leaf("Boolean", token.value, create_span(None, token.span)),
               idx + 1)
      [] token.type = "Null" ->
           POk(Leaf("Null", <<>>, create_span(None, token.span)), idx + 1)
      [] OTHER -> error_token(token, idx)

RECURSIVE parse_value(_, _)
RECURSIVE object_loop(_, _, _, _, _)
RECURSIVE property_loop(_, _, _, _, _)
RECURSIVE array_loop(_, _, _, _, _)

(* Parser::parse_property *)
parse_property(toks, idx) == property_loop(toks, "Start", idx, None, None)

(* Parser::parse_object *)
parse_object(toks, idx) == object_loop(toks, "Start", idx, None, <<>>)

(* Parser::parse_array *)
parse_array(toks, idx) == array_loop(toks, "Start", idx, None, <<>>)

(* parse_value without its last alternative. *)
parse_value_no_array(toks, idx) ==
  LET lit == parse_literal(toks, idx) IN
  IF lit.kind # "Err" THEN lit
  ELSE parse_object(toks, lit.index)

(* Parser::parse_value: parse_literal().or_else(parse_object).or_else(
   parse_array); each alternative starts where the one before left
   self.index. *)
parse_value(toks, idx) ==
  LET lit == parse_literal(toks, idx) IN
  IF lit.kind # "Err" THEN lit
  ELSE LET obj == parse_object(toks, lit.index) IN
       IF obj.kind # "Err" THEN obj
       ELSE parse_array(toks, obj.index)

(* The properties with p put in the place of a property of the same key. *)
PutProperty(props, p) ==
  IF \E k \in 1..Len(props) : props[k].key.value.value = p.key.value.value
  THEN [k \in 1..Len(props) |->
          IF props[k].key.value.value = p.key.value.value THEN p ELSE props[k]]
  ELSE Append(props, p)

(* parse_object that keeps the last property of each key. *)
RECURSIVE object_loop_last_wins(_, _, _, _, _)
object_loop_last_wins(toks, state, idx, start_span, props) ==
  IF ~Has(toks, idx) THEN error_eof(idx)
  ELSE LET token == At(toks, idx) IN
    CASE state = "Start" ->
           IF token.type = "LeftBrace"
           THEN object_loop_last_wins(toks, "LeftBrace", idx + 1,
                                      Some(token.span), props)
           ELSE error_token(token, idx)
      [] state = "LeftBrace" /\ token.type = "RightBrace" ->
           POk([type |-> "Object", value |-> props,
                span |-> create_span(start_span, token.span)], idx + 1)
      [] (state = "LeftBrace" /\ token.type # "RightBrace") \/ state = "Comma" ->
           LET p == parse_property(toks, idx) IN
           IF p.kind # "Ok" THEN p
           ELSE object_loop_last_wins(toks, "Property", p.index, start_span,
                                      PutProperty(props, p.ast))
      [] state = "Property" ->
           IF token.type = "Comma"
           THEN object_loop_last_wins(toks, "Comma", idx + 1, start_span, props)
           ELSE IF token.type = "RightBrace"
           THEN POk([type |-> "Object", value |-> props,
                     span |-> create_span(start_span, token.span)], idx + 1)
           ELSE error_token(token, idx)

(* The while let loop of parse_object. *)
object_loop(toks, state, idx, start_span, props) ==
  IF ~Has(toks, idx) THEN error_eof(idx)
  ELSE LET token == At(toks, idx) IN
    CASE state = "Start" ->
           IF token.type = "LeftBrace"
           THEN object_loop(toks, "LeftBrace", idx + 1, Some(token.span), props)
           ELSE error_token(token, idx)
      [] state = "LeftBrace" /\ token.type = "RightBrace" ->
           POk([type |-> "Object", value |-> props,
                span |-> create_span(start_span, token.span)], idx + 1)
      [] (state = "LeftBrace" /\ token.type # "RightBrace") \/ state = "Comma" ->
           LET p == parse_property(toks, idx) IN
           IF p.kind # "Ok" THEN p
           ELSE object_loop(toks, "Property", p.index, start_span,
                            Append(props, p.ast))
      [] state = "Property" ->
           IF token.type = "Comma"
           THEN object_loop(toks, "Comma", idx + 1, start_span, props)
           ELSE IF token.type = "RightBrace"
           THEN POk([type |-> "Object", value |-> props,
                     span |-> create_span(start_span, token.span)], idx + 1)
           ELSE error_token(token, idx)

(* The while let loop of parse_property. *)
property_loop(toks, state, idx, start_span, identifier) ==
  IF ~Has(toks, idx) THEN error_eof(idx)
  ELSE LET token == At(toks, idx) IN
    CASE state = "Start" ->
           IF token.type = "String"
           THEN LET ret == parse_string(token.value) IN
                IF ret.kind = "panic" THEN PPanic(idx)
                ELSE IF ret.kind = "Err" THEN error_escape(ret.value[1], idx)
                ELSE property_loop(toks, "Key", idx + 1, Some(token.span),
                       Some([type |-> "Identifier",
                             value |-> Leaf("String", ret.value, token.span),
                             span |-> token.span]))
           ELSE error_token(token, idx)
      [] state = "Key" ->
           IF token.type = "Colon"
           THEN property_loop(toks, "Colon", idx + 1, start_span, identifier)
           ELSE error_token(token, idx)
      [] state = "Colon" ->
           LET value == parse_value(toks, idx) IN
           IF value.kind # "Ok" THEN value
           ELSE POk(PropertyAst(identifier[1], value.ast,
                                create_span(start_span, value.ast.span)),
                    value.index)

(* parse_array with ArrayState::Comma taking the closing bracket as
   ArrayState::Value does. *)
array_loop_trailing(toks, state, idx, start_span, array_value) ==
  IF ~Has(toks, idx) THEN error_eof(idx)
  ELSE LET token == At(toks, idx) IN
    CASE state = "Comma" /\ token.type = "RightBracket" ->
           POk([type |-> "Array", value |-> array_value,
                span |-> create_span(start_span, token.span)], idx + 1)
      [] state = "Start" ->
           IF token.type = "LeftBracket"
           THEN array_loop(toks, "LeftBracket", idx + 1, Some(token.span),
                           array_value)
           ELSE error_token(token, idx)
      [] state = "LeftBracket" /\ token.type = "RightBracket" ->
           POk([type |-> "Array", value |-> array_value,
                span |-> create_span(start_span, token.span)], idx + 1)
      [] (state = "LeftBracket" /\ token.type # "RightBracket")
           \/ (state = "Comma" /\ token.type # "RightBracket") ->
           LET value == parse_value(toks, idx) IN
           IF value.kind # "Ok" THEN value
           ELSE array_loop(toks, "Value", value.index, start_span,
                           Append(array_value, value.ast))
      [] state = "Value" ->
           IF token.type = "RightBracket"
           THEN POk([type |-> "Array", value |-> array_value,
                     span |-> create_span(start_span, token.span)], idx + 1)
           ELSE IF token.type = "Comma"
           THEN array_loop(toks, "Comma", idx + 1, start_span, array_value)
           ELSE error_token(token, idx)

(* The while let loop of parse_array. *)
array_loop(toks, state, idx, start_span, array_value) ==
  IF ~Has(toks, idx) THEN error_eof(idx)
  ELSE LET token == At(toks, idx) IN
    CASE state = "Start" ->
           IF token.type = "LeftBracket"
           THEN array_loop(toks, "LeftBracket", idx + 1, Some(token.span),
                           array_value)
           ELSE error_token(token, idx)
      [] state = "LeftBracket" /\ token.type = "RightBracket" ->
           POk([type |-> "Array", value |-> array_value,
                span |-> create_span(start_span, token.span)], idx + 1)
      [] (state = "LeftBracket" /\ token.type # "RightBracket")
           \/ state = "Comma" ->
           LET value == parse_value(toks, idx) IN
           IF value.kind # "Ok" THEN value
           ELSE array_loop(toks, "Value", value.index, start_span,
                           Append(array_value, value.ast))
      [] state = "Value" ->
           IF token.type = "RightBracket"
           THEN POk([type |-> "Array", value |-> array_value,
                     span |-> create_span(start_span, token.span)], idx + 1)
           ELSE IF token.type = "Comma"
           THEN array_loop(toks, "Comma", idx + 1, start_span, array_value)
           ELSE error_token(token, idx)

(* Parser::new(tokens).parse() *)
(* parse without the test for an empty token sequence. *)
parser_parse_unguarded(toks) == parse_value(toks, 0)

parser_parse(toks) ==
  IF Len(toks) = 0 THEN error_eof(0) ELSE parse_value(toks, 0)

----------------------------------------------------------------------------
(* The documents of the repository's tests and of its description, as code
   points, and two more: duplicate keys and white space only. *)
(* {"hello": "world"}   (tokenizer.rs, test_tokenizer) *)
Doc_tokenizer_test ==
  <<123, 34, 104, 101, 108, 108, 111, 34, 58, 32, 34, 119, 111, 114, 108,
  100, 34, 125>>
(* [{ "hello": ["world", 1, null, true, { "a": [] }] }]   (lib.rs, it_works and test_from_str) *)
Doc_nesting ==
  <<91, 123, 32, 34, 104, 101, 108, 108, 111, 34, 58, 32, 91, 34, 119,
  111, 114, 108, 100, 34, 44, 32, 49, 44, 32, 110, 117, 108, 108, 44, 32,
  116, 114, 117, 101, 44, 32, 123, 32, 34, 97, 34, 58, 32, 91, 93, 32,
  125, 93, 32, 125, 93>>
(* {"hello":"world"}   (lib.rs, test_visit) *)
Doc_visit ==
  <<123, 34, 104, 101, 108, 108, 111, 34, 58, 34, 119, 111, 114, 108, 100,
  34, 125>>
(* {} *)
Doc_empty_object ==
  <<123, 125>>
(* [] *)
Doc_empty_array ==
  <<91, 93>>
(* [1,2,] *)
Doc_trailing_comma ==
  <<91, 49, 44, 50, 44, 93>>
(* "a\nb" *)
Doc_escape ==
  <<34, 97, 92, 110, 98, 34>>
(* "\u0041" *)
Doc_unicode ==
  <<34, 92, 117, 48, 48, 52, 49, 34>>
(* {"a": } *)
Doc_missing_value ==
  <<123, 34, 97, 34, 58, 32, 125>>
(* [false] *)
Doc_false ==
  <<91, 102, 97, 108, 115, 101, 93>>

(* {"a":1,"a":2}   (an object with a duplicate key) *)
Doc_duplicate_keys ==
  <<123, 34, 97, 34, 58, 49, 44, 34, 97, 34, 58, 50, 125>>
(* a text of white space only: space, line feed *)
Doc_blank ==
  <<32, 10>>

Samples ==
  {Doc_duplicate_keys,
   Doc_blank,
   Doc_tokenizer_test,
   Doc_nesting,
   Doc_visit,
   Doc_empty_object,
   Doc_empty_array,
   Doc_trailing_comma,
   Doc_escape,
   Doc_unicode,
   Doc_missing_value,
   Doc_false}

(* Bounds of the input families. *)
MaxPieces == 4
MaxEsc == 3
MaxUni == 7
MaxChars == 4

(* All concatenations of at most n pieces of P. *)
RECURSIVE Words(_, _)
Words(P, n) ==
  IF n = 0 THEN {<<>>}
  ELSE LET W == Words(P, n - 1) IN W \cup {w \o p : w \in W, p \in P}

(* Token lexemes:  { } [ ] , :  "a"  1  and the property  "a":1 *)
ParsePieces ==
  {<<LBRACE>>, <<RBRACE>>, <<LBRACKET>>, <<RBRACKET>>, <<COMMA>>, <<COLON>>,
   <<QUOTE, LOWER_A, QUOTE>>, <<DIGIT_1>>,
   <<QUOTE, LOWER_A, QUOTE, COLON, DIGIT_1>>}
ParseInputs == Words(ParsePieces, MaxPieces)

(* A quoted string of plain characters and two-character escapes. *)
EscPieces ==
  {<<LOWER_A>>} \cup
  {<<BACKSLASH, c>> : c \in {LOWER_B, LOWER_F, LOWER_N, LOWER_R, LOWER_T,
                             QUOTE, BACKSLASH, SLASH}}
EscInputs == {<<QUOTE>> \o w \o <<QUOTE>> : w \in Words(EscPieces, MaxEsc)}

(* An opening quote, backslash, 'u', then characters of  0 d g  and the
   closing quote or the end of the text. *)
UniChars == {<<DIGIT_0>>, <<100>>, <<103>>}
UniInputs ==
  {<<QUOTE, BACKSLASH, LOWER_U>> \o w \o q :
     w \in Words(UniChars, MaxUni), q \in {<<>>, <<QUOTE>>}}

(* Texts over  " \ 1 - n q  *)
TextChars ==
  {<<QUOTE>>, <<BACKSLASH>>, <<DIGIT_1>>, <<MINUS>>, <<LOWER_N>>, <<113>>}
TextInputs == Words(TextChars, MaxChars)

(* Texts over  0 1 - + . e E  *)
NumChars ==
  {<<DIGIT_0>>, <<DIGIT_1>>, <<MINUS>>, <<43>>, <<DOT>>, <<LOWER_E>>,
   <<UPPER_E>>}
NumInputs == Words(NumChars, MaxChars)

(* Texts over  1 e - .  long enough for two exponent parts. *)
MaxExp == 6
ExpChars == {<<DIGIT_1>>, <<LOWER_E>>, <<MINUS>>, <<DOT>>}
ExpInputs == Words(ExpChars, MaxExp)

(* Texts over  1 space CR LF [ *)
WsChars == {<<DIGIT_1>>, <<SPACE>>, <<CR>>, <<LF>>, <<LBRACKET>>}
WsInputs == Words(WsChars, MaxChars)

----------------------------------------------------------------------------
(* The Visit trait with its default methods and visit_string overridden to
   record the StringAst it is given: each operator takes the log so far and
   returns the log after the call. *)
RECURSIVE visit_json(_, _)

visit_string(ast, log) == Append(log, ast)

visit_identifier(ast, log) == visit_string(ast.value, log)

visit_property_value(ast, log) == visit_json(ast, log)

visit_array_item(ast, log) == visit_json(ast, log)

(* visit_property with the value visited before the key. *)
visit_property_value_first(ast, log) ==
  visit_identifier(ast.key, visit_property_value(ast.value, log))

visit_property(ast, log) ==
  visit_property_value(ast.value, visit_identifier(ast.key, log))

(* for property in ast.value.iter_mut(): the first k properties visited. *)
RECURSIVE visit_properties(_, _, _)
visit_properties(props, k, log) ==
  IF k = 0 THEN log
  ELSE visit_property(props[k], visit_properties(props, k - 1, log))

visit_object(ast, log) == visit_properties(ast.value, Len(ast.value), log)

(* for item in ast.value.iter_mut(): the first k items visited. *)
RECURSIVE visit_items(_, _, _)
visit_items(items, k, log) ==
  IF k = 0 THEN log
  ELSE visit_array_item(items[k], visit_items(items, k - 1, log))

visit_array(ast, log) == visit_items(ast.value, Len(ast.value), log)

visit_json(ast, log) ==
  CASE ast.type = "String" -> visit_string(ast, log)
    [] ast.type = "Object" -> visit_object(ast, log)
    [] ast.type = "Property" -> visit_property(ast, log)
    [] ast.type = "Identifier" -> visit_identifier(ast, log)
    [] ast.type = "Array" -> visit_array(ast, log)
    [] OTHER -> log

----------------------------------------------------------------------------
(* Json::parse(input): Tokenizer::new(input).tokenize()?, then
   Parser::new(&tokens).parse().

   chars, index, line, column: the Tokenizer's fields; tokens: the Vec that
   tokenize fills; pc: the position in tokenize's loop body ("loop" is the
   while condition, then one position per alternative of the or_else chain);
   lexed: what tokenize returned; result: what Json::parse returned;
   visited: the StringAst nodes a visitor has been handed by visit_string
   (lib.rs, test_visit), in the order of the calls. *)
VARIABLES chars, index, line, column, tokens, pc, lexed, result, visited

vars == <<chars, index, line, column, tokens, pc, lexed, result, visited>>

Pending == [kind |-> "pending"]

(* Tokenizer::new *)
InitOn(inputs) ==
  /\ chars \in inputs
  /\ index = 0
  /\ line = 1
  /\ column = 1
  /\ tokens = <<>>
  /\ pc = "loop"
  /\ lexed = Pending
  /\ result = Pending
  /\ visited = <<>>

(* The effect of one alternative r of the chain: a token is pushed and the
   loop goes round, or the next alternative is tried where r left index and
   column, or the panic unwinds out of tokenize. *)
Alternative(r, next) ==
  /\ index' = r.index
  /\ column' = r.column
  /\ tokens' = IF r.kind = "Some" THEN Append(tokens, r.token) ELSE tokens
  /\ pc' = CASE r.kind = "Some" -> "loop"
             [] r.kind = "None" -> next
             [] OTHER -> "parse"
  /\ lexed' = IF r.kind = "panic" THEN [kind |-> "panic"] ELSE lexed
  /\ UNCHANGED <<chars, line, result, visited>>

(* while self.index < self.len { if let Some(_) = self.whitespace() *)
whitespace ==
  /\ pc = "loop"
  /\ index < Len(chars)
  /\ LET r == whitespace_at(chars, index, line, column) IN
       /\ index' = r.index
       /\ line' = r.line
       /\ column' = r.column
       /\ pc' = IF r.some THEN "loop" ELSE "punctuation"
  /\ UNCHANGED <<chars, tokens, lexed, result, visited>>

punctuation ==
  /\ pc = "punctuation"
  /\ Alternative(punctuation_at(chars, index, line, column), "string")

string ==
  /\ pc = "string"
  /\ Alternative(string_at(chars, index, line, column), "number")

number ==
  /\ pc = "number"
  /\ Alternative(number_at(chars, index, line, column), "boolean")

boolean ==
  /\ pc = "boolean"
  /\ Alternative(boolean_at(chars, index, line, column), "null")

null ==
  /\ pc = "null"
  /\ Alternative(null_at(chars, index, line, column), "unexpected")

(* The else branch of tokenize: Err(format!(.., chars.get(index).unwrap(),
   line, column)); the unwrap panics when index is past the last char. *)
unexpected_char ==
  /\ pc = "unexpected"
  /\ lexed' = IF Has(chars, index)
              THEN [kind |-> "Err", char |-> At(chars, index),
                    line |-> line, column |-> column]
              ELSE [kind |-> "panic"]
  /\ pc' = "parse"
  /\ UNCHANGED <<chars, index, line, column, tokens, result, visited>>

(* The loop condition fails: Ok(tokens). *)
tokenize_ok ==
  /\ pc = "loop"
  /\ ~(index < Len(chars))
  /\ lexed' = [kind |-> "Ok", tokens |-> tokens]
  /\ pc' = "parse"
  /\ UNCHANGED <<chars, index, line, column, tokens, result, visited>>

(* The rest of Json::parse: ? hands an Err of tokenize to the caller,
   otherwise the parser runs on the tokens. *)
parse ==
  /\ pc = "parse"
  /\ result' = CASE lexed.kind = "Ok" -> parser_parse(lexed.tokens)
                 [] lexed.kind = "Err" ->
                      PErr([msg |-> "Unexpected char", token |-> None], 0)
                 [] OTHER -> PPanic(0)
  /\ pc' = "done"
  /\ UNCHANGED <<chars, index, line, column, tokens, lexed, visited>>

(* visitor.visit_json(&mut json) on the tree that Json::parse returned. *)
visit ==
  /\ pc = "done"
  /\ result.kind = "Ok"
  /\ visited' = visit_json(result.ast, <<>>)
  /\ pc' = "visited"
  /\ UNCHANGED <<chars, index, line, column, tokens, lexed, result>>

Next ==
  \/ visit
  \/ whitespace
  \/ punctuation
  \/ string
  \/ number
  \/ boolean
  \/ null
  \/ unexpected_char
  \/ tokenize_ok
  \/ parse

Init == InitOn(Samples \cup ParseInputs)
Spec == Init /\ [][Next]_vars

InitString == InitOn(Samples \cup EscInputs \cup UniInputs \cup TextInputs)
SpecString == InitString /\ [][Next]_vars

InitNumber == InitOn(Samples \cup NumInputs)
SpecNumber == InitNumber /\ [][Next]_vars

InitWhitespace == InitOn(Samples \cup WsInputs)
SpecWhitespace == InitWhitespace /\ [][Next]_vars

InitExponent == InitOn(Samples \cup ExpInputs)
SpecExponent == InitExponent /\ [][Next]_vars

InitTokens ==
  InitOn(Samples \cup EscInputs \cup TextInputs \cup NumInputs \cup WsInputs)
SpecTokens == InitTokens /\ [][Next]_vars

----------------------------------------------------------------------------
(* Claims. *)

Returned == pc = "done"
Tokenized == pc \in {"parse", "done"}

(* The object that starts the token sequence is opened and parse_object ends
   in error_token: a token that the state of the object, of a property or of
   a construct inside them does not allow. *)
ObjectMeetsUnexpectedToken(toks) ==
  /\ Len(toks) > 0
  /\ toks[1].type = "LeftBrace"
  /\ LET o == parse_object(toks, 0) IN
       o.kind = "Err" /\ o.err.msg = "Unexpected token"

(* C1: when an object is opened and then meets a token that the current
   state of its state machine does not permit, Json::parse returns Err and
   never a tree. *)
C1_UnexpectedTokenAborts ==
  (Returned /\ lexed.kind = "Ok" /\ ObjectMeetsUnexpectedToken(lexed.tokens))
    => result.kind = "Err"

(* The control character that the escape letter c stands for. *)
ControlChar(c) ==
  CASE c = LOWER_B -> 8
    [] c = LOWER_F -> 12
    [] c = LOWER_N -> LF
    [] c = LOWER_R -> CR
    [] c = LOWER_T -> TAB
    [] OTHER -> c

(* The interior s of a string of plain characters and two-character escapes,
   with one character for each escape. *)
RECURSIVE OneCharPerEscape(_)
OneCharPerEscape(s) ==
  IF s = <<>> THEN <<>>
  ELSE IF s[1] = BACKSLASH
       THEN <<ControlChar(s[2])>> \o OneCharPerEscape(SubSeq(s, 3, Len(s)))
       ELSE <<s[1]>> \o OneCharPerEscape(Tail(s))

(* C2: escape resolution turns each of \b \f \n \r \t into exactly one
   character, the control character: the document "a\nb" decodes to
   a, line feed, b. *)
C2_EscapesBecomeControlCharacters ==
  (Returned /\ chars \in EscInputs)
    => /\ result.kind = "Ok"
       /\ result.ast.type = "String"
       /\ result.ast.value = OneCharPerEscape(SubSeq(chars, 2, Len(chars) - 1))

(* A document that is one string literal:  "\uXXXX  with four hex digits
   that name a character, then characters other than quote and backslash,
   then the closing quote. *)
UnicodeEscapeDocument(cs) ==
  /\ Len(cs) >= 8
  /\ cs[1] = QUOTE /\ cs[2] = BACKSLASH /\ cs[3] = LOWER_U
  /\ \A i \in 4..7 : is_hex(cs[i])
  /\ from_u32(from_str_radix16(SubSeq(cs, 4, 7))[1]) # None
  /\ cs[Len(cs)] = QUOTE
  /\ \A i \in 8..(Len(cs) - 1) : cs[i] \notin {QUOTE, BACKSLASH}

(* C3: a string literal with \u and exactly four hex digits is one String
   token whatever follows the digits, the closing quote included, and
   parses to the character with that code point: "A" gives "A". *)
C3_UnicodeEscapeIsAccepted ==
  (Returned /\ UnicodeEscapeDocument(chars))
    => /\ lexed.kind = "Ok"
       /\ Len(lexed.tokens) = 1
       /\ lexed.tokens[1].type = "String"
       /\ result.kind = "Ok"
       /\ result.ast.type = "String"
       /\ result.ast.value = <<from_str_radix16(SubSeq(chars, 4, 7))[1]>>
                               \o SubSeq(chars, 8, Len(chars) - 1)

(* C4: tokenize and Json::parse end by returning Ok or Err, never by a
   panic. *)
C4_NeverPanics == lexed.kind # "panic" /\ result.kind # "panic"

(* An opening quote, then neither a quote nor a backslash up to the end of
   the text. *)
Unterminated(cs) ==
  /\ Len(cs) >= 1
  /\ cs[1] = QUOTE
  /\ \A i \in 2..Len(cs) : cs[i] \notin {QUOTE, BACKSLASH}

(* C5: an unterminated string literal makes tokenize return an error value
   and no token sequence. *)
C5_UnterminatedStringIsAnError ==
  (Tokenized /\ Unterminated(chars)) => lexed.kind = "Err"

(* A string literal whose first backslash is followed by a character that
   starts no escape. *)
BadEscape(cs) ==
  \E k \in 2..(Len(cs) - 1) :
    /\ cs[1] = QUOTE
    /\ \A j \in 2..(k - 1) : cs[j] \notin {QUOTE, BACKSLASH}
    /\ cs[k] = BACKSLASH
    /\ cs[k + 1] \notin {QUOTE, BACKSLASH, SLASH, LOWER_B, LOWER_F, LOWER_N,
                         LOWER_R, LOWER_T, LOWER_U}

(* C6: a backslash followed by a character outside  " \ / b f n r t u
   aborts tokenization with an error, whatever follows. *)
C6_BadEscapeIsAnError ==
  (Tokenized /\ BadEscape(chars)) => lexed.kind = "Err"

IsCloser(token) == token.type \in {"RightBracket", "RightBrace"}

(* C7: a trailing comma is rejected: Json::parse never returns a tree for
   which the parser consumed a comma immediately followed by a closing
   delimiter, in an array or an object at any depth. *)
C7_TrailingCommaRejected ==
  (Returned /\ result.kind = "Ok")
    => \A k \in 1..(result.index - 1) :
         ~(tokens[k].type = "Comma" /\ IsCloser(tokens[k + 1]))

(* The object of  { "a":1 , }  or one like it: the parser stopped at a
   closing brace that follows a comma. *)
C7_Witness ==
  /\ Returned
  /\ result.kind = "Err"
  /\ result.err.msg = "Unexpected token"
  /\ result.index >= 1
  /\ tokens[result.index].type = "Comma"
  /\ tokens[result.index + 1].type = "RightBrace"

(* The whole text is digits, 'e' or 'E', a sign, digits. *)
SignedExponent(cs) ==
  \E k \in 1..Len(cs) :
    /\ \A i \in 1..k : IsDigit(cs[i])
    /\ k = 1 \/ cs[1] # DIGIT_0
    /\ k + 3 <= Len(cs)
    /\ cs[k + 1] \in {LOWER_E, UPPER_E}
    /\ cs[k + 2] \in {43, MINUS}
    /\ \A i \in (k + 3)..Len(cs) : IsDigit(cs[i])

(* C8: a number whose exponent has an explicit sign, '+' or '-', is one
   Number token whose span covers the whole lexeme. *)
C8_SignedExponentIsOneNumber ==
  (Tokenized /\ SignedExponent(chars))
    => /\ lexed.kind = "Ok"
       /\ Len(lexed.tokens) = 1
       /\ lexed.tokens[1].type = "Number"
       /\ lexed.tokens[1].span.start.offset = 0
       /\ lexed.tokens[1].span.end.offset = Len(chars)

(* C9: CR immediately followed by LF is one line break: a token after the
   pair is on the line after the token before it, at column 1. *)
C9_CrLfIsOneLineBreak ==
  \A i \in 1..(Len(tokens) - 1) :
    (substring(chars, tokens[i].span.end.offset,
               tokens[i + 1].span.start.offset) = <<CR, LF>>)
      => /\ tokens[i + 1].span.start.line = tokens[i].span.end.line + 1
         /\ tokens[i + 1].span.start.column = 1

(* The span of node n runs from the start of a token of type open to the end
   of a later token of type close, and every child in kids lies between the
   two. *)
Delimited(n, kids, toks, open, close) ==
  \E i, j \in 1..Len(toks) :
    /\ i < j
    /\ toks[i].type = open
    /\ toks[j].type = close
    /\ n.span.start = toks[i].span.start
    /\ n.span.end = toks[j].span.end
    /\ \A k \in 1..Len(kids) :
         /\ toks[i].span.end.offset <= kids[k].span.start.offset
         /\ kids[k].span.end.offset <= toks[j].span.start.offset

RECURSIVE CollectionSpans(_, _)
CollectionSpans(n, toks) ==
  CASE n.type = "Object" ->
         /\ Delimited(n, n.value, toks, "LeftBrace", "RightBrace")
         /\ \A k \in 1..Len(n.value) : CollectionSpans(n.value[k], toks)
    [] n.type = "Array" ->
         /\ Delimited(n, n.value, toks, "LeftBracket", "RightBracket")
         /\ \A k \in 1..Len(n.value) : CollectionSpans(n.value[k], toks)
    [] n.type = "Property" -> CollectionSpans(n.value, toks)
    [] OTHER -> TRUE

(* C10: "{}" is an object with no property and offsets [0,2), "[]" an array
   with no item and offsets [0,2); the span of every object and array of a
   returned tree runs from the start of its opening delimiter to the end of
   its closing delimiter, whatever its children, and the root's closing
   delimiter is the last token consumed. *)
C10_CollectionSpans ==
  Returned =>
    /\ chars \in {Doc_empty_object, Doc_empty_array}
         => /\ result.kind = "Ok"
            /\ result.ast.type
                 = (IF chars = Doc_empty_object THEN "Object" ELSE "Array")
            /\ result.ast.value = <<>>
            /\ result.ast.span.start.offset = 0
            /\ result.ast.span.end.offset = 2
    /\ result.kind = "Ok"
         => /\ CollectionSpans(result.ast, tokens)
            /\ result.ast.type \in {"Object", "Array"}
                 => result.ast.span.end = tokens[result.index].span.end

(* [{}]: an array that holds an empty object. *)
C10_Witness ==
  /\ Returned
  /\ result.kind = "Ok"
  /\ result.ast.type = "Array"
  /\ Len(result.ast.value) = 1
  /\ result.ast.value[1].type = "Object"
  /\ result.ast.value[1].value = <<>>

----------------------------------------------------------------------------
(* The grammar of the description, as a recogniser that reads the token
   types from left to right:
     value ::= literal | object | array
     object ::= "{" [ STRING ":" value { "," STRING ":" value } ] "}"
     array ::= "[" [ value { "," value } ] "]"
   stack holds the collections that are open ("obj" or "arr"); exp is what
   may come next: "value", "first" (after an opening delimiter), "key",
   "colon", "after" (after a value inside a collection), "end" (after the
   root value).  The run stops at the first token that the grammar does not
   permit: exp = "bad" and at = its 1-based position.  pairs counts the
   key:value pairs begun and items the array elements begun. *)
IsLiteralType(t) == t \in {"String", "Number", "Boolean", "Null"}

AfterValue(stack) == IF stack = <<>> THEN "end" ELSE "after"

Pop(stack) == SubSeq(stack, 1, Len(stack) - 1)

Top(stack) == IF stack = <<>> THEN "none" ELSE stack[Len(stack)]

GrammarState(stack, exp, at, pairs, items) ==
  [stack |-> stack, exp |-> exp, at |-> at, pairs |-> pairs, items |-> items]

RECURSIVE GrammarRun(_, _, _)
GrammarRun(toks, i, g) ==
  IF i > Len(toks) THEN g
  ELSE
    LET t == toks[i].type
        top == Top(g.stack)
        bad == GrammarState(g.stack, "bad", i, g.pairs, g.items)
        n == IF top = "arr" THEN g.items + 1 ELSE g.items
        to(stack, exp, pairs, items) ==
          GrammarRun(toks, i + 1, GrammarState(stack, exp, 0, pairs, items))
        value ==
          CASE IsLiteralType(t) -> to(g.stack, AfterValue(g.stack), g.pairs, n)
            [] t = "LeftBrace" ->
                 to(Append(g.stack, "obj"), "first", g.pairs, n)
            [] t = "LeftBracket" ->
                 to(Append(g.stack, "arr"), "first", g.pairs, n)
            [] OTHER -> bad
        close ==
          to(Pop(g.stack), AfterValue(Pop(g.stack)), g.pairs, g.items)
    IN  CASE g.exp = "value" -> value
          [] g.exp = "first" /\ top = "arr" ->
               IF t = "RightBracket" THEN close ELSE value
          [] g.exp = "first" /\ top = "obj" ->
               CASE t = "RightBrace" -> close
                 [] t = "String" -> to(g.stack, "colon", g.pairs + 1, g.items)
                 [] OTHER -> bad
          [] g.exp = "key" ->
               IF t = "String"
               THEN to(g.stack, "colon", g.pairs + 1, g.items)
               ELSE bad
          [] g.exp = "colon" ->
               IF t = "Colon"
               THEN to(g.stack, "value", g.pairs, g.items)
               ELSE bad
          [] g.exp = "after" /\ top = "obj" ->
               CASE t = "Comma" -> to(g.stack, "key", g.pairs, g.items)
                 [] t = "RightBrace" -> close
                 [] OTHER -> bad
          [] g.exp = "after" /\ top = "arr" ->
               CASE t = "Comma" -> to(g.stack, "value", g.pairs, g.items)
                 [] t = "RightBracket" -> close
                 [] OTHER -> bad
          [] OTHER -> bad

Grammar(toks) == GrammarRun(toks, 1, GrammarState(<<>>, "value", 0, 0, 0))

(* toks is a document of the grammar. *)
Grammatical(toks) == Grammar(toks).exp = "end"

(* toks ends where the grammar still needs a token: it is empty, or it stops
   in the middle of an object, a property or an array. *)
Exhausted(toks) == Grammar(toks).exp \notin {"end", "bad"}

(* From position i on, every backslash of the quoted text lex is followed by
   one of  " \ / b f n r t  : the escapes that stand for one character. *)
RECURSIVE SimpleEscapesFrom(_, _)
SimpleEscapesFrom(lex, i) ==
  IF i > Len(lex) THEN TRUE
  ELSE IF lex[i] # BACKSLASH THEN SimpleEscapesFrom(lex, i + 1)
  ELSE /\ i < Len(lex)
       /\ lex[i + 1] \in {QUOTE, BACKSLASH, SLASH, LOWER_B, LOWER_F, LOWER_N,
                          LOWER_R, LOWER_T}
       /\ SimpleEscapesFrom(lex, i + 2)

(* No String token holds a \u escape or an escape that JSON does not have. *)
SimpleEscapes(toks) ==
  \A i \in 1..Len(toks) :
    toks[i].type = "String" => SimpleEscapesFrom(toks[i].value, 1)

IsEof(r) ==
  /\ r.kind = "Err"
  /\ r.err.msg = "Unexpected end of input"
  /\ r.err.token = None

(* C11: when the token sequence is empty (the text is empty or holds white
   space only) parse returns the end-of-input error without reading a token,
   and when the token sequence is exhausted in the middle of an object, a
   property or an array the end-of-input error is raised, with every token
   read (the keys and strings met on the way being ones that decode: no \u
   escape and no escape that JSON does not have); an end-of-input error is
   raised in no other case. *)
C11_ExhaustedIsEndOfInput ==
  (Returned /\ lexed.kind = "Ok") =>
    /\ tokens = <<>> => (IsEof(result) /\ result.index = 0)
    /\ (Exhausted(tokens) /\ SimpleEscapes(tokens))
         => (IsEof(result) /\ result.index = Len(tokens))
    /\ IsEof(result) => result.index = Len(tokens)

(* {"a":  -- the tokens end after the colon of a property. *)
C11_Witness ==
  /\ Returned
  /\ lexed.kind = "Ok"
  /\ Len(tokens) = 3
  /\ tokens[1].type = "LeftBrace"
  /\ tokens[3].type = "Colon"
  /\ IsEof(result)

(* Span a lies within span b. *)
Within(a, b) ==
  /\ b.start.offset <= a.start.offset
  /\ a.start.offset <= a.end.offset
  /\ a.end.offset <= b.end.offset

RECURSIVE SpanContainment(_)
SpanContainment(n) ==
  CASE n.type \in {"Object", "Array"} ->
         \A k \in 1..Len(n.value) :
           /\ Within(n.value[k].span, n.span)
           /\ SpanContainment(n.value[k])
    [] n.type = "Property" ->
         /\ Within(n.key.span, n.span)
         /\ Within(n.value.span, n.span)
         /\ SpanContainment(n.key)
         /\ SpanContainment(n.value)
    [] n.type = "Identifier" -> Within(n.value.span, n.span)
    [] OTHER -> TRUE

(* C12: in every tree that a successful parse returns, the span of each
   child lies within the span of its parent: a property within its object,
   the key and the value within their property, the string within its
   identifier, an item within its array. *)
C12_SpanContainment ==
  (Returned /\ result.kind = "Ok") => SpanContainment(result.ast)

(* An array that holds an object whose property is bound to an array with
   items, as the nesting document of the tests. *)
C12_Witness ==
  /\ Returned
  /\ result.kind = "Ok"
  /\ result.ast.type = "Array"
  /\ Len(result.ast.value) = 1
  /\ result.ast.value[1].type = "Object"
  /\ Len(result.ast.value[1].value) = 1
  /\ result.ast.value[1].value[1].value.type = "Array"
  /\ Len(result.ast.value[1].value[1].value.value) > 1

(* The children of every object and array of the tree stand in the order of
   the source: each ends before the next starts. *)
RECURSIVE InSourceOrder(_)
InSourceOrder(n) ==
  CASE n.type \in {"Object", "Array"} ->
         /\ \A k \in 1..(Len(n.value) - 1) :
              n.value[k].span.end.offset <= n.value[k + 1].span.start.offset
         /\ \A k \in 1..Len(n.value) : InSourceOrder(n.value[k])
    [] n.type = "Property" ->
         /\ n.key.span.end.offset <= n.value.span.start.offset
         /\ InSourceOrder(n.value)
    [] OTHER -> TRUE

(* The keys of the tree, from left to right: the key nodes of the first k
   children of n, each followed by the keys inside its value. *)
RECURSIVE KeysOf(_)
RECURSIVE KeysOfFirst(_, _)
KeysOf(n) ==
  CASE n.type \in {"Object", "Array"} -> KeysOfFirst(n.value, Len(n.value))
    [] n.type = "Property" -> <<n.key>> \o KeysOf(n.value)
    [] OTHER -> <<>>
KeysOfFirst(kids, k) ==
  IF k = 0 THEN <<>> ELSE KeysOfFirst(kids, k - 1) \o KeysOf(kids[k])

(* The number of array items of the tree. *)
RECURSIVE ItemsOf(_)
RECURSIVE ItemsOfFirst(_, _)
ItemsOf(n) ==
  CASE n.type = "Array" -> Len(n.value) + ItemsOfFirst(n.value, Len(n.value))
    [] n.type = "Object" -> ItemsOfFirst(n.value, Len(n.value))
    [] n.type = "Property" -> ItemsOf(n.value)
    [] OTHER -> 0
ItemsOfFirst(kids, k) ==
  IF k = 0 THEN 0 ELSE ItemsOfFirst(kids, k - 1) + ItemsOf(kids[k])

(* The String tokens of the source that a Colon follows, in source order. *)
KeyTokens(toks) ==
  SelectSeq([i \in 1..Len(toks) |->
               IF /\ toks[i].type = "String"
                  /\ i < Len(toks)
                  /\ toks[i + 1].type = "Colon"
               THEN <<toks[i]>> ELSE <<>>],
            LAMBDA o : o # <<>>)

(* C13: the properties of an object and the items of an array stand in
   source order, and for a document of the grammar the tree holds exactly
   one property per key:value pair of the source, in order, a repeated key
   included (none merged, none dropped), and one item per array element. *)
C13_SourceOrderAndDuplicates ==
  (Returned /\ result.kind = "Ok") =>
    /\ InSourceOrder(result.ast)
    /\ Grammatical(tokens) =>
         /\ Len(KeysOf(result.ast)) = Grammar(tokens).pairs
         /\ Len(KeysOf(result.ast)) = Len(KeyTokens(tokens))
         /\ \A k \in 1..Len(KeysOf(result.ast)) :
              /\ KeysOf(result.ast)[k].span = KeyTokens(tokens)[k][1].span
              /\ KeysOf(result.ast)[k].value.value
                   = parse_string(KeyTokens(tokens)[k][1].value).value
         /\ ItemsOf(result.ast) = Grammar(tokens).items

(* An object with two properties of the same key, as {"a":1,"a":2}. *)
C13_Witness ==
  /\ Returned
  /\ result.kind = "Ok"
  /\ result.ast.type = "Object"
  /\ Len(result.ast.value) = 2
  /\ result.ast.value[1].key.value.value = result.ast.value[2].key.value.value
  /\ result.ast.value[1].value.value # result.ast.value[2].value.value

(* The number of StringAst nodes of the tree: one per key, one per string
   value. *)
RECURSIVE StringsOf(_)
RECURSIVE StringsOfFirst(_, _)
StringsOf(n) ==
  CASE n.type = "String" -> 1
    [] n.type \in {"Object", "Array"} -> StringsOfFirst(n.value, Len(n.value))
    [] n.type = "Property" -> 1 + StringsOf(n.value)
    [] n.type = "Identifier" -> 1
    [] OTHER -> 0
StringsOfFirst(kids, k) ==
  IF k = 0 THEN 0 ELSE StringsOfFirst(kids, k - 1) + StringsOf(kids[k])

(* The String tokens of the source, in source order. *)
StringTokens(toks) == SelectSeq(toks, LAMBDA t : t.type = "String")

Visited == pc = "visited"

(* "hello" and "world" *)
Text_hello == <<104, 101, 108, 108, 111>>
Text_world == <<119, 111, 114, 108, 100>>

(* C14: a visitor that overrides only visit_string is handed each string of
   the tree exactly once (keys through their identifier, and string values),
   in source order: the calls are as many as the strings of the tree, each
   later in the source than the one before, so a key comes before anything
   inside its value and properties and items come in list order; for a
   document of the grammar the strings handed over are the String tokens of
   the source, in order, and for {"hello":"world"} they are hello, world. *)
C14_VisitOrder ==
  Visited =>
    /\ Len(visited) = StringsOf(result.ast)
    /\ \A k \in 1..Len(visited) : visited[k].type = "String"
    /\ \A k \in 1..(Len(visited) - 1) :
         visited[k].span.end.offset <= visited[k + 1].span.start.offset
    /\ Grammatical(tokens) =>
         /\ Len(visited) = Len(StringTokens(tokens))
         /\ \A k \in 1..Len(visited) :
              /\ visited[k].span = StringTokens(tokens)[k].span
              /\ visited[k].value
                   = parse_string(StringTokens(tokens)[k].value).value
    /\ chars = Doc_visit =>
         /\ Len(visited) = 2
         /\ visited[1].value = Text_hello
         /\ visited[2].value = Text_world

(* The nesting document: hello (a key), world (a string item), a (a key
   inside the fifth item). *)
C14_Witness ==
  /\ Visited
  /\ result.ast.type = "Array"
  /\ Len(visited) = 3
  /\ visited[1].value = Text_hello
  /\ visited[2].value = Text_world
  /\ visited[3].value = <<LOWER_A>>

(* Every property of the tree starts where a String token, its key, starts
   and ends where its value node ends. *)
RECURSIVE PropertySpans(_, _)
PropertySpans(n, toks) ==
  CASE n.type \in {"Object", "Array"} ->
         \A k \in 1..Len(n.value) : PropertySpans(n.value[k], toks)
    [] n.type = "Property" ->
         /\ \E i \in 1..Len(toks) :
              /\ toks[i].type = "String"
              /\ toks[i].span = n.key.span
              /\ toks[i].span.start = n.span.start
         /\ n.span.end = n.value.span.end
         /\ PropertySpans(n.value, toks)
    [] OTHER -> TRUE

(* C15: the span of a property starts at the start of its key token and
   ends at the end of its value node; the single property of
   {"hello":"world"} has offsets (1, 16). *)
C15_PropertySpan ==
  Returned =>
    /\ result.kind = "Ok" => PropertySpans(result.ast, tokens)
    /\ chars = Doc_visit =>
         /\ result.kind = "Ok"
         /\ result.ast.type = "Object"
         /\ Len(result.ast.value) = 1
         /\ result.ast.value[1].span.start.offset = 1
         /\ result.ast.value[1].span.end.offset = 16

(* A property, inside an array's object, whose value is an array with
   items, so that the value ends later than its first token. *)
C15_Witness ==
  /\ Returned
  /\ result.kind = "Ok"
  /\ result.ast.type = "Array"
  /\ Len(result.ast.value) > 0
  /\ result.ast.value[1].type = "Object"
  /\ Len(result.ast.value[1].value) > 0
  /\ result.ast.value[1].value[1].value.type = "Array"
  /\ result.ast.value[1].value[1].span.end.offset
       > result.ast.value[1].value[1].key.span.end.offset + 3

(* lex, a piece of the text, is a lexeme of token t: the one punctuation
   character of its type, a text between two quotes that is the token's
   value, a text from a sign or digit to a digit whose conversion is the
   token's value, or the word of the literal. *)
IsLexemeOf(lex, t) ==
  CASE t.type = "LeftBrace" -> lex = <<LBRACE>>
    [] t.type = "RightBrace" -> lex = <<RBRACE>>
    [] t.type = "LeftBracket" -> lex = <<LBRACKET>>
    [] t.type = "RightBracket" -> lex = <<RBRACKET>>
    [] t.type = "Colon" -> lex = <<COLON>>
    [] t.type = "Comma" -> lex = <<COMMA>>
    [] t.type = "String" ->
         /\ Len(lex) >= 2
         /\ lex[1] = QUOTE
         /\ lex[Len(lex)] = QUOTE
         /\ t.value = lex
    [] t.type = "Number" ->
         /\ Len(lex) >= 1
         /\ lex[1] = MINUS \/ IsDigit(lex[1])
         /\ IsDigit(lex[Len(lex)])
         /\ t.value = f64_parse(lex)
    [] t.type = "Boolean" -> lex = (IF t.value THEN TRUE_LIT ELSE FALSE_LIT)
    [] t.type = "Null" -> lex = NULL_LIT
    [] OTHER -> FALSE

SingleLine(cs) == \A i \in 1..Len(cs) : cs[i] \notin {CR, LF}

(* C16: the span of every token is exact: the text from start.offset to
   end.offset is the token's lexeme, so that end.offset - start.offset is
   the lexeme's length, and a String token's value is that text, quotes
   included; on a text of one line every position is on line 1 with
   column = offset + 1. *)
C16_TokenSpansExact ==
  \A k \in 1..Len(tokens) :
    LET t == tokens[k] IN
    /\ 0 <= t.span.start.offset
    /\ t.span.start.offset < t.span.end.offset
    /\ t.span.end.offset <= Len(chars)
    /\ IsLexemeOf(substring(chars, t.span.start.offset, t.span.end.offset), t)
    /\ SingleLine(chars) =>
         /\ t.span.start.line = 1
         /\ t.span.end.line = 1
         /\ t.span.start.column = t.span.start.offset + 1
         /\ t.span.end.column = t.span.end.offset + 1

(* A successful tokenization with a String token and with a Number token of
   more than one character that does not start the text. *)
C16_Witness ==
  /\ lexed.kind = "Ok"
  /\ \E k \in 1..Len(tokens) : tokens[k].type = "String"
  /\ \E k \in 1..Len(tokens) :
       /\ tokens[k].type = "Number"
       /\ tokens[k].span.start.offset > 0
       /\ tokens[k].span.end.offset > tokens[k].span.start.offset + 1

(* C17: when a parse fails because of an unexpected token, the error names
   the first token, in source order, that the grammar does not permit at its
   position (for {"a": } the closing brace). *)
C17_UnexpectedTokenIsTheFirst ==
  (Returned /\ lexed.kind = "Ok" /\ result.kind = "Err"
     /\ result.err.msg = "Unexpected token") =>
    /\ Grammar(tokens).exp = "bad"
    /\ result.err.token = Some(tokens[Grammar(tokens).at])

(* The token types that a tree stands for, written back from left to
   right: delimiters, keys, colons and commas included. *)
RECURSIVE TreeTypes(_)
RECURSIVE TreeTypesOfFirst(_, _)
TreeTypes(n) ==
  CASE n.type = "Object" ->
         <<"LeftBrace">> \o TreeTypesOfFirst(n.value, Len(n.value))
           \o <<"RightBrace">>
    [] n.type = "Array" ->
         <<"LeftBracket">> \o TreeTypesOfFirst(n.value, Len(n.value))
           \o <<"RightBracket">>
    [] n.type = "Property" -> <<"String", "Colon">> \o TreeTypes(n.value)
    [] OTHER -> <<n.type>>
TreeTypesOfFirst(kids, k) ==
  CASE k = 0 -> <<>>
    [] k = 1 -> TreeTypes(kids[1])
    [] OTHER ->
         TreeTypesOfFirst(kids, k - 1) \o <<"Comma">> \o TreeTypes(kids[k])

TokenTypes(toks) == [i \in 1..Len(toks) |-> toks[i].type]

(* C18: every token sequence that the grammar value ::= literal | object |
   array derives, objects and arrays nested to any depth, is parsed
   successfully, to the end, into a tree of the same structure: written back
   as tokens the tree gives the token sequence; the nesting document of the
   tests gives an array of one object with one property bound to an array
   of five items.  The strings are the ones whose decoding is not in
   question here: those without a \u escape (C3, C4) and without an escape
   that JSON does not have (C6). *)
C18_GrammarAccepted ==
  (Returned /\ lexed.kind = "Ok" /\ Grammatical(tokens)
     /\ SimpleEscapes(tokens)) =>
    /\ result.kind = "Ok"
    /\ result.index = Len(tokens)
    /\ TreeTypes(result.ast) = TokenTypes(tokens)
    /\ chars = Doc_nesting =>
         /\ result.ast.type = "Array"
         /\ Len(result.ast.value) = 1
         /\ result.ast.value[1].type = "Object"
         /\ Len(result.ast.value[1].value) = 1
         /\ result.ast.value[1].value[1].value.type = "Array"
         /\ Len(result.ast.value[1].value[1].value.value) = 5

(* The nesting document has been parsed: collections nested four deep. *)
C18_Witness ==
  /\ Returned
  /\ chars = Doc_nesting
  /\ Grammatical(tokens)
  /\ result.kind = "Ok"
  /\ result.ast.value[1].value[1].value.value[5].type = "Object"
  /\ result.ast.value[1].value[1].value.value[5].value[1].value.type = "Array"

(* The number grammar of JSON, read from position i of lex:
     number ::= [ "-" ] ( "0" | digit19 { digit } ) [ "." digit { digit } ]
                [ ( "e" | "E" ) [ "+" | "-" ] digit { digit } ]
   DigitsEnd(lex, i) is the position after the digits that start at i. *)
RECURSIVE DigitsEnd(_, _)
DigitsEnd(lex, i) ==
  IF i <= Len(lex) /\ IsDigit(lex[i]) THEN DigitsEnd(lex, i + 1) ELSE i

JsonNumber(lex) ==
  LET i0 == IF Len(lex) >= 1 /\ lex[1] = MINUS THEN 2 ELSE 1
      i1 == IF i0 <= Len(lex) /\ lex[i0] = DIGIT_0
            THEN i0 + 1
            ELSE DigitsEnd(lex, i0)
      frac == i1 <= Len(lex) /\ lex[i1] = DOT
      i2 == IF frac THEN DigitsEnd(lex, i1 + 1) ELSE i1
      exp == i2 <= Len(lex) /\ lex[i2] \in {LOWER_E, UPPER_E}
      i3 == IF exp /\ i2 + 1 <= Len(lex) /\ lex[i2 + 1] \in {43, MINUS}
            THEN i2 + 2
            ELSE i2 + 1
      i4 == IF exp THEN DigitsEnd(lex, i3) ELSE i2
  IN  /\ i1 > i0
      /\ frac => i2 > i1 + 1
      /\ exp => i4 > i3
      /\ i4 = Len(lex) + 1

(* The text that Tokenizer::number hands to the conversion when called at
   the cursor: the characters up to the last one it took for a digit. *)
NumberLexemeAtCursor ==
  substring(chars, index, number_loop(chars, "Start", index, column, 0).parsed_index)

(* C19: the number scanner finalises only lexemes of the JSON number
   grammar: none holds a second exponent marker, and the conversion to a
   double succeeds for every one of them. *)
C19_NumberLexemesAreJsonNumbers ==
  /\ \A k \in 1..Len(tokens) :
       tokens[k].type = "Number" =>
         JsonNumber(substring(chars, tokens[k].span.start.offset,
                              tokens[k].span.end.offset))
  /\ (pc = "number" /\ NumberLexemeAtCursor # <<>>) =>
       /\ JsonNumber(NumberLexemeAtCursor)
       /\ number_at(chars, index, line, column).kind = "Some"

(* From position i of the quoted text lex on, every \u escape is followed
   at once by four hexadecimal digits; a backslash escapes the character
   after it. *)
RECURSIVE UnicodeEscapesHexFrom(_, _)
UnicodeEscapesHexFrom(lex, i) ==
  IF i > Len(lex) THEN TRUE
  ELSE IF lex[i] # BACKSLASH THEN UnicodeEscapesHexFrom(lex, i + 1)
  ELSE IF i < Len(lex) /\ lex[i + 1] = LOWER_U
  THEN /\ i + 5 <= Len(lex)
       /\ \A j \in (i + 2)..(i + 5) : is_hex(lex[j])
       /\ UnicodeEscapesHexFrom(lex, i + 6)
  ELSE UnicodeEscapesHexFrom(lex, i + 2)

(* C20: a String token is produced only when, for each \u escape of the
   literal, the four characters that follow the u at once are all
   hexadecimal digits; otherwise the scan fails. *)
C20_UnicodeEscapeNeedsFourHexDigits ==
  \A k \in 1..Len(tokens) :
    tokens[k].type = "String" => UnicodeEscapesHexFrom(tokens[k].value, 2)

(* C21: a call of the number scanner that produces a token consumes
   nothing beyond it: the cursor it leaves equals the end offset of the
   Number token, so that a dangling '.', 'e', 'E' or exponent sign after the
   digits (1.  1e  1e-) is the next character to be tokenized. *)
C21_NumberCursorIsTokenEnd ==
  [][(pc = "number" /\ Len(tokens') = Len(tokens) + 1)
       => /\ tokens'[Len(tokens')].type = "Number"
          /\ index' = tokens'[Len(tokens')].span.end.offset
          /\ column' = tokens'[Len(tokens')].span.end.column]_vars

(* C22: a scanner alternative that returns no token leaves the position
   unchanged: after string(), number(), boolean() or null() has returned
   None, index, line and column are what they were when it was entered, so
   that the next alternative is tried at the same position and the lexical
   error reports the character, line and column where the token began. *)
C22_FailedAlternativeKeepsPosition ==
  [][(/\ pc \in {"string", "number", "boolean", "null"}
      /\ pc' \in {"number", "boolean", "null", "unexpected"})
       => /\ index' = index
          /\ line' = line
          /\ column' = column]_vars

IsWhitespace(c) == c \in {SPACE, TAB, CR, LF}

(* The tokens whose span holds the character at offset o. *)
TokensAt(toks, o) ==
  {k \in 1..Len(toks) :
     toks[k].span.start.offset <= o /\ o < toks[k].span.end.offset}

(* C23: whenever tokenize succeeds the tokens account for the whole input:
   their spans are in increasing order and pairwise disjoint, and every
   character that is not white space lies inside the span of exactly one
   token; none is skipped. *)
C23_TokensCoverInput ==
  lexed.kind = "Ok" =>
    /\ \A k \in 1..(Len(lexed.tokens) - 1) :
         lexed.tokens[k].span.end.offset
           <= lexed.tokens[k + 1].span.start.offset
    /\ \A o \in 0..(Len(chars) - 1) :
         ~IsWhitespace(At(chars, o))
           => Cardinality(TokensAt(lexed.tokens, o)) = 1

(* C24: a successful parse consumes the whole token sequence: whenever
   Parser::parse returns Ok the cursor equals the number of tokens and the
   span of the root ends where the last token ends; tokens after the first
   complete value (1 2  or  [] ]) are not accepted. *)
C24_OkConsumesAllTokens ==
  (Returned /\ lexed.kind = "Ok" /\ result.kind = "Ok") =>
    /\ result.index = Len(tokens)
    /\ result.ast.span.end = tokens[Len(tokens)].span.end

(* One of the parser's calls, started at token i. *)
ParserCalls(toks, i) ==
  {parse_literal(toks, i), parse_value(toks, i), parse_object(toks, i),
   parse_property(toks, i), parse_array(toks, i)}

(* Every call that the loops of parse_object, parse_property and parse_array
   make to go on (a property, a value) ends, within the tokens, and when it
   returns Ok its cursor is at least one token further than where it
   started; the other iterations add 1 to the cursor or return. *)
ParserAdvances(toks) ==
  \A i \in 0..(Len(toks) - 1) :
    \A r \in ParserCalls(toks, i) :
      /\ r.kind \in {"Ok", "Err", "panic"}
      /\ i <= r.index
      /\ r.index <= Len(toks)
      /\ r.kind = "Ok" => r.index > i

Final == pc \in {"done", "visited"}

(* Some step of Json::parse or of the visit is still to be taken. *)
CanStep ==
  \/ pc \in {"loop", "punctuation", "string", "number", "boolean", "null",
              "unexpected", "parse"}
  \/ pc = "done" /\ result.kind = "Ok"

(* The place of pc in the order in which one round of the tokenizer loop,
   then the parser, then the visit, go through it. *)
PcOrder ==
  CASE pc = "loop" -> 9
    [] pc = "punctuation" -> 8
    [] pc = "string" -> 7
    [] pc = "number" -> 6
    [] pc = "boolean" -> 5
    [] pc = "null" -> 4
    [] pc = "unexpected" -> 3
    [] pc = "parse" -> 2
    [] pc = "done" -> 1
    [] OTHER -> 0

(* A measure of what is left to do: the characters after the cursor, then
   the steps left in the round. *)
Rank == (Len(chars) - index) * 10 + PcOrder

(* C25: for every text tokenize and then parse reach a final outcome after
   finitely many steps: no state short of the final outcome is without a
   next step, and every step lowers a measure that is never negative, so
   that no state is met twice and the steps are at most the first measure;
   every round of the tokenizer loop that goes on has moved the cursor by at
   least one character, the cursor never moves back nor past the text, and
   every call that the loops of parse_object, parse_property and
   parse_array make to go on moves the parser's cursor by at least one
   token. *)
C25_Termination ==
  /\ [](Final \/ CanStep)
  /\ [](Rank >= 0)
  /\ [][/\ Rank' < Rank
        /\ index' >= index
        /\ (pc' = "loop") => (index' > index)]_vars
  /\ [](Returned => (lexed.kind = "Ok" => ParserAdvances(tokens)))

(* The nesting document has been tokenized and parsed: the loops of the
   tokenizer, of parse_array, parse_object and parse_property have all gone
   round more than once. *)
C25_Witness ==
  /\ Returned
  /\ chars = Doc_nesting
  /\ Len(tokens) > 20
  /\ result.kind = "Ok"
  /\ result.index = Len(tokens)

====
